---- MODULE Spec2Model ----
(***************************************************************************)
(* openpiv.tools.Multiprocesser: discovery of two sorted file lists by     *)
(* glob pattern, validation of the pairing, and dispatch of a per-pair     *)
(* function either in a sequential loop or through multiprocessing.Pool.   *)
(*                                                                         *)
(* Strings are sequences of character codes, compared as Python compares   *)
(* str objects.  Positions of TLA+ sequences start at 1; the PairIndex of  *)
(* a WorkItem is the 0-based value xrange produces.                        *)
(*                                                                         *)
(* The module is Python 2 (xrange, line 271); pool.map is modelled with    *)
(* the semantics of the Python 2.7 multiprocessing.Pool: the first failed  *)
(* chunk result makes the MapResult ready and map re-raises at once.       *)
(* func "fails" means it raises an Exception.                              *)
(***************************************************************************)
EXTENDS Integers, Sequences, FiniteSets, TLC

\* ------------------------------------------------------------------ bounds
\* number of distinct frames that may exist in the data directory
MaxFrames == 3
\* largest n_cpus passed to run
MaxCpus == 3
\* number of run() calls on one processor
MaxRuns == 2
\* number of frame pairs in the large data directory
MaxItems == 9
\* number of files added to or removed from the directory after construction
MaxFsChanges == 1

\* ----------------------------------------------------------------- strings
Min(a, b) == IF a < b THEN a ELSE b

\* Python str comparison s < t: first differing code point decides, a proper
\* prefix is smaller
StrLess(s, t) ==
    \E p \in 1..(Min(Len(s), Len(t)) + 1) :
        /\ \A q \in 1..(p - 1) : s[q] = t[q]
        /\ \/ p > Len(s) /\ p <= Len(t)
           \/ p <= Len(s) /\ p <= Len(t) /\ s[p] < t[p]

\* decimal digits of a frame number below 100, as character codes
Digits(x) == IF x < 10 THEN <<48 + x>> ELSE <<48 + (x \div 10), 48 + (x % 10)>>

\* frame numbers 5, 10, 15, ...: numeric order and string order differ
FrameNo(f) == 5 * f

\* "_a" and "_b"
SuffixA == <<95, 97>>
SuffixB == <<95, 98>>

\* file names "<no>_a" and "<no>_b" that may exist in the data directory
FileName(f, suffix) == Digits(FrameNo(f)) \o suffix
AllNames == {FileName(f, s) : f \in 1..MaxFrames, s \in {SuffixA, SuffixB}}

\* os.path.abspath(data_dir): "/d"
DataDir == <<47, 100>>

\* os.path.join(dir, name)
PathJoin(dir, name) == dir \o <<47>> \o name

\* the patterns "*_a" and "*_b": a star followed by a literal suffix
HasSuffix(name, suffix) ==
    /\ Len(name) >= Len(suffix)
    /\ SubSeq(name, Len(name) - Len(suffix) + 1, Len(name)) = suffix

\* the set of paths glob.glob(os.path.join(dir, "*" + suffix)) matches in
\* a directory holding the names in dirFiles
GlobMatches(dirFiles, suffix) ==
    {PathJoin(DataDir, nm) : nm \in {x \in dirFiles : HasSuffix(x, suffix)}}

\* glob.glob returns the matches in arbitrary (os.listdir) order: every
\* enumeration of the set without repetition
Enumerations(S) ==
    {e \in [1..Cardinality(S) -> S] : \A p, q \in 1..Cardinality(S) : e[p] = e[q] => p = q}

\* ------------------------------------------------------------------ sorted
\* insert x into the ascending list s, after every element not greater
RECURSIVE Insert(_, _)
Insert(x, s) ==
    IF s = <<>> THEN <<x>>
    ELSE IF StrLess(x, Head(s)) THEN <<x>> \o s
    ELSE <<Head(s)>> \o Insert(x, Tail(s))

RECURSIVE SortFrom(_, _)
SortFrom(acc, rest) ==
    IF rest = <<>> THEN acc ELSE SortFrom(Insert(Head(rest), acc), Tail(rest))

\* mutant: the glob output is used as returned
SortedUnsorted(s) == s

\* sorted(list of str)
Sorted(s) == SortFrom(<<>>, s)

\* ------------------------------------------------------------- construction
\* mutant: count comparison that accepts a shorter "b" list
ValidateLe(fa, fb) ==
    IF ~(Len(fa) <= Len(fb)) THEN "MismatchedCountError"
    ELSE IF Len(fa) = 0 THEN "NoFilesFoundError"
    ELSE "ok"

\* mutant: the emptiness check placed before the count check
ValidateEmptyFirst(fa, fb) ==
    IF Len(fa) = 0 THEN "NoFilesFoundError"
    ELSE IF Len(fa) # Len(fb) THEN "MismatchedCountError"
    ELSE "ok"

\* the two checks of __init__, in their order; both raise ValueError, told
\* apart by their message
Validate(fa, fb) ==
    IF ~(Len(fa) = Len(fb)) THEN "MismatchedCountError"
    ELSE IF Len(fa) = 0 THEN "NoFilesFoundError"
    ELSE "ok"

\* --------------------------------------------------------------------- run
\* mutant: indices counted from 1
ImagePairsFromOne(fa, fb, n) ==
    [p \in 1..Min(Min(Len(fa), Len(fb)), n) |-> <<fa[p], fb[p], p>>]

\* [(file_a, file_b, i) for ... in zip(files_a, files_b, xrange(n_files))]
ImagePairs(fa, fb, n) ==
    [p \in 1..Min(Min(Len(fa), Len(fb)), n) |-> <<fa[p], fb[p], p - 1>>]

\* Pool.map_async: chunksize, extra = divmod(len, processes * 4); +1 if extra
ChunkSize(len, processes) ==
    IF len = 0 THEN 0
    ELSE (len \div (processes * 4)) + (IF len % (processes * 4) # 0 THEN 1 ELSE 0)

NumChunks(len, size) ==
    IF size = 0 THEN 0 ELSE (len \div size) + (IF len % size # 0 THEN 1 ELSE 0)

\* mutant: slices that start one item late
GetTasksSkipFirst(pairs, size) ==
    [c \in 1..NumChunks(Len(pairs), size) |->
        [i |-> c - 1,
         items |-> SubSeq(pairs, (c - 1) * size + 2, Min(c * size + 1, Len(pairs)))]]

\* mutant: the tasks are queued last slice first
GetTasksReversed(pairs, size) ==
    [c \in 1..NumChunks(Len(pairs), size) |->
        LET d == NumChunks(Len(pairs), size) - c + 1 IN
        [i |-> d - 1,
         items |-> SubSeq(pairs, (d - 1) * size + 1, Min(d * size, Len(pairs)))]]

\* Pool._get_tasks wrapped by map_async: task i carries the i-th slice of
\* size items
GetTasks(pairs, size) ==
    [c \in 1..NumChunks(Len(pairs), size) |->
        [i |-> c - 1,
         items |-> SubSeq(pairs, (c - 1) * size + 1, Min(c * size, Len(pairs)))]]

NoTask == [i |-> 0 - 1, items |-> <<>>]
NoIndex == 0 - 1

VARIABLES
    fs,           \* names of the files in the data directory
    fs0,          \* the directory as __init__ saw it
    fs_changes,   \* number of changes made to the directory since then
    ctor,         \* outcome of __init__: "none" before it is called
    files_a,      \* self.files_a
    files_b,      \* self.files_b
    n_files,      \* self.n_files
    pc,           \* where the caller is: "idle", "seq" (loop head), "func" (in func), "map" (in pool.map)
    runs,         \* number of run() calls made
    n_cpus,       \* argument of the current or last run()
    image_pairs,  \* local list of run()
    pos,          \* sequential loop: position in image_pairs of the current item
    status,       \* PairIndex -> "pending" | "running" | "done" | "failed" | "killed"
    invoked,      \* WorkItem -> number of times func was called on it in this run
    outcome,      \* of the last run(): "none" | "returned" | "raised"
    raised,       \* PairIndex of the WorkItem whose exception run() raised
    pool,         \* "none" | "run" | "terminated"
    taskqueue,    \* tasks not yet taken by a worker
    workers,      \* worker -> the task it executes, items not yet finished
    outqueue,     \* results sent by the workers, not yet handled
    result        \* the MapResult: number_left, ready, success, value, cached

vars == <<fs, fs0, fs_changes, ctor, files_a, files_b, n_files, pc, runs, n_cpus, image_pairs, pos,
          status, invoked, outcome, raised, pool, taskqueue, workers, outqueue, result>>

objVars == <<ctor, files_a, files_b, n_files>>
poolVars == <<pool, taskqueue, workers, outqueue, result>>

NoResult == [number_left |-> 0, ready |-> FALSE, success |-> TRUE, value |-> NoIndex, cached |-> FALSE]

\* a processor constructed on the large directory: frames 1..MaxItems of
\* "a" and of "b", glob having returned them in frame order
LargeNames == {FileName(f, s) : f \in 1..MaxItems, s \in {SuffixA, SuffixB}}
LargeGlob(suffix) == [f \in 1..MaxItems |-> PathJoin(DataDir, FileName(f, suffix))]

\* n_cpus values tried by the caller: every value up to MaxCpus on the small
\* directories, 2 on the large one (the least pool for which pool.map
\* builds chunks of more than one item)
CpuChoices == IF n_files > MaxFrames THEN {2} ELSE (0 - 1)..MaxCpus

\* no processor yet, any small directory
InitFresh ==
    /\ fs \in SUBSET AllNames
    /\ fs0 = {}
    /\ ctor = "none"
    /\ files_a = <<>>
    /\ files_b = <<>>
    /\ n_files = 0

\* a processor already constructed on the large directory
InitLarge ==
    /\ fs = LargeNames
    /\ fs0 = LargeNames
    /\ ctor = Validate(Sorted(LargeGlob(SuffixA)), Sorted(LargeGlob(SuffixB)))
    /\ files_a = Sorted(LargeGlob(SuffixA))
    /\ files_b = Sorted(LargeGlob(SuffixB))
    /\ n_files = Len(files_a)

\* the state of everything but the directory and the processor
InitRun ==
    /\ fs_changes = 0
    /\ pc = "idle"
    /\ runs = 0
    /\ n_cpus = 1
    /\ image_pairs = <<>>
    /\ pos = 0
    /\ status = <<>>
    /\ invoked = <<>>
    /\ outcome = "none"
    /\ raised = NoIndex
    /\ pool = "none"
    /\ taskqueue = <<>>
    /\ workers = <<>>
    /\ outqueue = <<>>
    /\ result = NoResult

Init == (InitFresh \/ InitLarge) /\ InitRun

\* Multiprocesser.__init__: both globs, both sorts, the count, the checks.
\* A raised ValueError leaves the caller without a processor.
Construct ==
    /\ ctor = "none"
    /\ \E ga \in Enumerations(GlobMatches(fs, SuffixA)),
          gb \in Enumerations(GlobMatches(fs, SuffixB)) :
          /\ files_a' = Sorted(ga)
          /\ files_b' = Sorted(gb)
    /\ n_files' = Len(files_a')
    /\ ctor' = Validate(files_a', files_b')
    /\ fs0' = fs
    /\ UNCHANGED <<fs, fs_changes, pc, runs, n_cpus, image_pairs, pos, status, invoked, outcome, raised>>
    /\ UNCHANGED poolVars

\* mutant: the loop walks the list from its end
LoopItemReversed(pairs, step) == pairs[Len(pairs) - step + 1]

\* the WorkItem the for loop of run visits in its step-th iteration
LoopItem(pairs, step) == pairs[step]

\* multiprocessing.Pool(processes = n_cpus) followed by the submission of
\* pool.map: the tasks, the idle workers and the MapResult
PoolTasks(pairs, k) == GetTasks(pairs, ChunkSize(Len(pairs), k))

NewMapResult(len, size) ==
    [number_left |-> NumChunks(len, size),
     ready |-> size <= 0,
     success |-> TRUE,
     value |-> NoIndex,
     cached |-> size > 0]

\* mutant: a pool with one worker more than asked for
PoolWorkersOneMore(k) == [w \in 1..(k + 1) |-> NoTask]

\* multiprocessing.Pool(processes = n_cpus): n_cpus idle workers
PoolWorkers(k) == [w \in 1..k |-> NoTask]

\* mutant: the branch test written with >=
UsePoolFromOne(k) == k >= 1

\* line 275: the branch test of run
UsePool(k) == k > 1

\* mutant: run globs and sorts the directory again
RunInputRescan ==
    LET a == Sorted(CHOOSE e \in Enumerations(GlobMatches(fs, SuffixA)) : TRUE)
        b == Sorted(CHOOSE e \in Enumerations(GlobMatches(fs, SuffixB)) : TRUE)
    IN  [a |-> a, b |-> b, n |-> Len(a)]

\* line 271: the attributes run reads
RunInput == [a |-> files_a, b |-> files_b, n |-> n_files]

\* run(func, n_cpus) up to its first call of func: builds image_pairs and
\* takes the pool branch or the loop branch.  A pool left by an earlier run
\* is unreachable by then and is no longer followed.
Run(k) ==
    /\ pc = "idle"
    /\ ctor = "ok"
    /\ runs < MaxRuns
    /\ runs' = runs + 1
    /\ n_cpus' = k
    /\ image_pairs' = ImagePairs(RunInput.a, RunInput.b, RunInput.n)
    /\ status' = [x \in {image_pairs'[q][3] : q \in 1..Len(image_pairs')} |-> "pending"]
    /\ invoked' = [x \in {image_pairs'[q] : q \in 1..Len(image_pairs')} |-> 0]
    /\ outcome' = "none"
    /\ raised' = NoIndex
    /\ outqueue' = <<>>
    /\ IF UsePool(k)
       THEN /\ pool' = "run"
            /\ taskqueue' = PoolTasks(image_pairs', k)
            /\ workers' = PoolWorkers(k)
            /\ result' = NewMapResult(Len(image_pairs'), ChunkSize(Len(image_pairs'), k))
            /\ pc' = "map"
            /\ pos' = 0
       ELSE /\ pool' = "none"
            /\ taskqueue' = <<>>
            /\ workers' = <<>>
            /\ result' = NoResult
            /\ pc' = "seq"
            /\ pos' = 1
    /\ UNCHANGED <<fs, fs0, fs_changes, ctor, files_a, files_b, n_files>>

\* line 279-280: the loop takes its next item and calls func on it
SeqBegin ==
    /\ pc = "seq"
    /\ pos <= Len(image_pairs)
    /\ LET x == LoopItem(image_pairs, pos) IN
          /\ invoked' = [invoked EXCEPT ![x] = @ + 1]
          /\ status' = [status EXCEPT ![x[3]] = "running"]
    /\ pc' = "func"
    /\ UNCHANGED <<fs, fs0, fs_changes, runs, n_cpus, image_pairs, pos, outcome, raised>>
    /\ UNCHANGED objVars
    /\ UNCHANGED poolVars

\* func returns: back to the head of the loop
FuncReturn ==
    /\ pc = "func"
    /\ status' = [status EXCEPT ![LoopItem(image_pairs, pos)[3]] = "done"]
    /\ pos' = pos + 1
    /\ pc' = "seq"
    /\ UNCHANGED <<fs, fs0, fs_changes, runs, n_cpus, image_pairs, invoked, outcome, raised>>
    /\ UNCHANGED objVars
    /\ UNCHANGED poolVars

\* mutant: the loop catches the exception and goes on
FuncRaiseSwallowed ==
    /\ pc = "func"
    /\ status' = [status EXCEPT ![LoopItem(image_pairs, pos)[3]] = "failed"]
    /\ pos' = pos + 1
    /\ pc' = "seq"
    /\ UNCHANGED <<fs, fs0, fs_changes, runs, n_cpus, image_pairs, invoked, outcome, raised>>
    /\ UNCHANGED objVars
    /\ UNCHANGED poolVars

\* func raises: nothing in run catches it, the exception leaves run
FuncRaise ==
    /\ pc = "func"
    /\ status' = [status EXCEPT ![LoopItem(image_pairs, pos)[3]] = "failed"]
    /\ outcome' = "raised"
    /\ raised' = LoopItem(image_pairs, pos)[3]
    /\ pc' = "idle"
    /\ UNCHANGED <<fs, fs0, fs_changes, runs, n_cpus, image_pairs, pos, invoked>>
    /\ UNCHANGED objVars
    /\ UNCHANGED poolVars

\* the loop is exhausted: run returns None
SeqEnd ==
    /\ pc = "seq"
    /\ pos > Len(image_pairs)
    /\ outcome' = "returned"
    /\ pc' = "idle"
    /\ UNCHANGED <<fs, fs0, fs_changes, runs, n_cpus, image_pairs, pos, status, invoked, raised>>
    /\ UNCHANGED objVars
    /\ UNCHANGED poolVars

\* a pool worker takes the next task from the queue and mapstar calls func
\* on the first item of its chunk
WorkerGet(w) ==
    /\ pool = "run"
    /\ workers[w] = NoTask
    /\ taskqueue # <<>>
    /\ LET task == Head(taskqueue) IN
          IF task.items = <<>>
          THEN /\ outqueue' = Append(outqueue, [i |-> task.i, success |-> TRUE, value |-> NoIndex])
               /\ UNCHANGED <<workers, invoked, status>>
          ELSE /\ workers' = [workers EXCEPT ![w] = task]
               /\ invoked' = [invoked EXCEPT ![Head(task.items)] = @ + 1]
               /\ status' = [status EXCEPT ![Head(task.items)[3]] = "running"]
               /\ UNCHANGED outqueue
    /\ taskqueue' = Tail(taskqueue)
    /\ UNCHANGED <<fs, fs0, fs_changes, pc, runs, n_cpus, image_pairs, pos, outcome, raised, pool, result>>
    /\ UNCHANGED objVars

\* func returns in worker w: mapstar goes on to the next item of the chunk,
\* or the worker sends (True, values) and is idle again
WorkerItemReturn(w) ==
    /\ pool = "run"
    /\ workers[w] # NoTask
    /\ LET task == workers[w]
           x == Head(task.items)
           rest == Tail(task.items) IN
          IF rest # <<>>
          THEN /\ workers' = [workers EXCEPT ![w] = [task EXCEPT !.items = rest]]
               /\ invoked' = [invoked EXCEPT ![Head(rest)] = @ + 1]
               /\ status' = [status EXCEPT ![x[3]] = "done", ![Head(rest)[3]] = "running"]
               /\ UNCHANGED outqueue
          ELSE /\ workers' = [workers EXCEPT ![w] = NoTask]
               /\ status' = [status EXCEPT ![x[3]] = "done"]
               /\ outqueue' = Append(outqueue, [i |-> task.i, success |-> TRUE, value |-> NoIndex])
               /\ UNCHANGED invoked
    /\ UNCHANGED <<fs, fs0, fs_changes, pc, runs, n_cpus, image_pairs, pos, outcome, raised, pool, taskqueue, result>>
    /\ UNCHANGED objVars

\* func raises in worker w: mapstar stops, the rest of the chunk is never
\* visited, the worker sends (False, exception) and is idle again
WorkerItemRaise(w) ==
    /\ pool = "run"
    /\ workers[w] # NoTask
    /\ LET task == workers[w]
           x == Head(task.items) IN
          /\ workers' = [workers EXCEPT ![w] = NoTask]
          /\ status' = [status EXCEPT ![x[3]] = "failed"]
          /\ outqueue' = Append(outqueue, [i |-> task.i, success |-> FALSE, value |-> x[3]])
    /\ UNCHANGED <<fs, fs0, fs_changes, pc, runs, n_cpus, image_pairs, pos, invoked, outcome, raised, pool, taskqueue, result>>
    /\ UNCHANGED objVars

\* mutant: a failed task is recorded but the waiting caller is not woken
MapResultSetNoWake(res, r) ==
    IF r.success
    THEN [res EXCEPT !.number_left = res.number_left - 1,
                     !.ready = (res.number_left - 1 = 0),
                     !.cached = (res.number_left - 1 # 0)]
    ELSE [res EXCEPT !.success = FALSE,
                     !.value = r.value]

\* MapResult._set
MapResultSet(res, r) ==
    IF r.success
    THEN [res EXCEPT !.number_left = res.number_left - 1,
                     !.ready = (res.number_left - 1 = 0),
                     !.cached = (res.number_left - 1 # 0)]
    ELSE [res EXCEPT !.success = FALSE,
                     !.value = r.value,
                     !.cached = FALSE,
                     !.ready = TRUE]

\* the result handler thread of the pool takes one result; a result whose
\* job has left the cache is dropped (KeyError)
HandleResult ==
    /\ pool = "run"
    /\ outqueue # <<>>
    /\ result' = IF result.cached THEN MapResultSet(result, Head(outqueue)) ELSE result
    /\ outqueue' = Tail(outqueue)
    /\ UNCHANGED <<fs, fs0, fs_changes, pc, runs, n_cpus, image_pairs, pos, status, invoked, outcome, raised,
                   pool, taskqueue, workers>>
    /\ UNCHANGED objVars

\* mutant: the result of map_async is never asked for its value
MapOutcomeIgnored(res) == [outcome |-> "returned", raised |-> NoIndex]

\* ApplyResult.get once the result is ready: the value, or the stored
\* exception raised again in the caller
MapOutcome(res) ==
    IF res.success
    THEN [outcome |-> "returned", raised |-> NoIndex]
    ELSE [outcome |-> "raised", raised |-> res.value]

\* line 277: pool.map wakes up when the MapResult is ready and run ends
MapGet ==
    /\ pc = "map"
    /\ result.ready
    /\ outcome' = MapOutcome(result).outcome
    /\ raised' = MapOutcome(result).raised
    /\ pc' = "idle"
    /\ UNCHANGED <<fs, fs0, fs_changes, runs, n_cpus, image_pairs, pos, status, invoked>>
    /\ UNCHANGED objVars
    /\ UNCHANGED poolVars

\* the pool is a local of run and is never closed or joined: once run has
\* ended it is collected and its finalizer terminates the worker processes,
\* whatever they are doing
PoolTerminate ==
    /\ pc = "idle"
    /\ pool = "run"
    /\ pool' = "terminated"
    /\ workers' = [w \in DOMAIN workers |-> NoTask]
    /\ status' = [x \in DOMAIN status |-> IF status[x] = "running" THEN "killed" ELSE status[x]]
    /\ taskqueue' = <<>>
    /\ outqueue' = <<>>
    /\ UNCHANGED <<fs, fs0, fs_changes, pc, runs, n_cpus, image_pairs, pos, invoked, outcome, raised, result>>
    /\ UNCHANGED objVars

\* the files other processes add or remove: the two files of the first frame
ChangedNames == {FileName(1, SuffixA), FileName(1, SuffixB)}

\* another process adds a file to the data directory or removes one, at any
\* time after the construction; nothing of the processor takes part
FsChange ==
    /\ ctor = "ok"
    /\ fs_changes < MaxFsChanges
    /\ \E nm \in ChangedNames :
          fs' = IF nm \in fs THEN fs \ {nm} ELSE fs \cup {nm}
    /\ fs_changes' = fs_changes + 1
    /\ UNCHANGED <<fs0, pc, runs, n_cpus, image_pairs, pos, status, invoked, outcome, raised>>
    /\ UNCHANGED objVars
    /\ UNCHANGED poolVars

Next ==
    \/ Construct
    \/ \E k \in CpuChoices : Run(k)
    \/ SeqBegin
    \/ FuncReturn
    \/ FuncRaise
    \/ SeqEnd
    \/ \E w \in DOMAIN workers : WorkerGet(w)
    \/ \E w \in DOMAIN workers : WorkerItemReturn(w)
    \/ \E w \in DOMAIN workers : WorkerItemRaise(w)
    \/ HandleResult
    \/ MapGet
    \/ PoolTerminate

Spec == Init /\ [][Next]_vars

\* every call of func ends (it returns or raises), the caller's thread, the
\* worker processes and the result handler thread of the pool all get to run
Fairness ==
    /\ WF_vars(SeqBegin)
    /\ WF_vars(FuncReturn \/ FuncRaise)
    /\ WF_vars(SeqEnd)
    /\ \A w \in 1..MaxCpus :
          /\ WF_vars(w \in DOMAIN workers /\ WorkerGet(w))
          /\ WF_vars(w \in DOMAIN workers /\ (WorkerItemReturn(w) \/ WorkerItemRaise(w)))
    /\ WF_vars(HandleResult)
    /\ WF_vars(MapGet)

SpecFair == Init /\ [][Next]_vars /\ Fairness

\* the processor on a small directory that other processes change
NextFs == Next \/ FsChange
InitFs ==
    /\ InitFresh
    /\ InitRun
SpecFs == InitFs /\ [][NextFs]_vars

\* ------------------------------------------------------------------ claims
\* number of times func was invoked on WorkItem x in the current run
Count(x) == IF x \in DOMAIN invoked THEN invoked[x] ELSE 0

\* the matches of the two patterns at construction time
MatchesA == GlobMatches(fs0, SuffixA)
MatchesB == GlobMatches(fs0, SuffixB)

Failed == {x \in DOMAIN status : status[x] = "failed"}
Unfinished == {x \in DOMAIN status : status[x] \in {"pending", "running", "killed"}}
RunEnded == runs > 0 /\ pc = "idle"

\* s lists exactly the elements of S, each once, in ascending string order
IsSortedListOf(s, S) ==
    /\ Len(s) = Cardinality(S)
    /\ {s[p] : p \in 1..Len(s)} = S
    /\ \A p \in 1..(Len(s) - 1) : StrLess(s[p], s[p + 1])

\* C1: in a run with n_cpus > 1, func is never invoked twice on a WorkItem
\* and only on WorkItems of image_pairs; when the run has ended and no
\* invocation failed, every WorkItem was invoked exactly once and is done.
C1_ParallelExactlyOnce ==
    n_cpus > 1 =>
        /\ DOMAIN invoked = {image_pairs[q] : q \in 1..Len(image_pairs)}
        /\ \A q \in 1..Len(image_pairs) : Count(image_pairs[q]) <= 1
        /\ (RunEnded /\ Failed = {}) =>
              /\ \A q \in 1..Len(image_pairs) :
                    Count(image_pairs[q]) = 1 /\ status[image_pairs[q][3]] = "done"

\* C1 witness: a run on 2 workers over the large directory (chunks of more
\* than one WorkItem) has returned, every WorkItem invoked once
C1_Witness ==
    /\ n_cpus = 2
    /\ RunEnded
    /\ outcome = "returned"
    /\ Len(image_pairs) = MaxItems
    /\ ChunkSize(Len(image_pairs), n_cpus) > 1
    /\ \A q \in 1..Len(image_pairs) : Count(image_pairs[q]) = 1

\* C2: in a run with n_cpus = 1 no WorkItem is invoked twice, an invocation
\* begins only when every WorkItem of smaller index is done (so invocations
\* come in ascending index order, one at a time), and a run that ends
\* without failure has invoked every WorkItem once.
C2_SequentialInOrder ==
    (n_cpus = 1 /\ runs > 0) =>
        /\ \A q \in 1..Len(image_pairs) :
              /\ Count(image_pairs[q]) <= 1
              /\ Count(image_pairs[q]) = 1 <=> status[image_pairs[q][3]] # "pending"
        /\ \A x \in DOMAIN status :
              status[x] # "pending" => \A y \in DOMAIN status : y < x => status[y] = "done"
        /\ Cardinality({x \in DOMAIN status : status[x] = "running"}) <= 1
        /\ (RunEnded /\ Failed = {}) =>
              /\ \A q \in 1..Len(image_pairs) : Count(image_pairs[q]) = 1
              /\ \A x \in DOMAIN status : status[x] = "done"

\* C2 witness: a sequential run over 3 WorkItems has returned
C2_Witness ==
    /\ n_cpus = 1
    /\ RunEnded
    /\ outcome = "returned"
    /\ Len(image_pairs) = 3
    /\ \A q \in 1..3 : Count(image_pairs[q]) = 1

\* C3: whenever the two patterns match different numbers of files, the
\* construction ends in MismatchedCountError, no list of WorkItems is ever
\* built and func is never invoked.
C3_MismatchedCountFails ==
    (ctor # "none" /\ Cardinality(MatchesA) # Cardinality(MatchesB)) =>
        /\ ctor = "MismatchedCountError"
        /\ image_pairs = <<>>
        /\ invoked = <<>>
        /\ runs = 0
        /\ pc = "idle"

\* C3 witness: 2 "a" files and 3 "b" files, construction has failed
C3_Witness ==
    /\ Cardinality(MatchesA) = 2
    /\ Cardinality(MatchesB) = 3
    /\ ctor = "MismatchedCountError"

\* C4 as stated: whenever either pattern matches no file, the construction
\* ends in NoFilesFoundError.
C4_Original ==
    (ctor # "none" /\ (MatchesA = {} \/ MatchesB = {})) => ctor = "NoFilesFoundError"

\* C4 amended: whenever either pattern matches no file the construction
\* fails; it ends in NoFilesFoundError when both match none and in
\* MismatchedCountError when exactly one matches none.
C4_EmptyMatchFails ==
    (ctor # "none" /\ (MatchesA = {} \/ MatchesB = {})) =>
        /\ ctor # "ok"
        /\ (MatchesA = {} /\ MatchesB = {}) => ctor = "NoFilesFoundError"
        /\ (MatchesA # {} \/ MatchesB # {}) => ctor = "MismatchedCountError"

\* C4 witness: no "a" file and two "b" files, construction has failed
C4_Witness ==
    /\ MatchesA = {}
    /\ Cardinality(MatchesB) = 2
    /\ ctor = "MismatchedCountError"

\* C5: after a successful construction files_a and files_b are the matches
\* of their pattern in ascending string order, of equal length n_files, and
\* the list run builds pairs them by position: item p is
\* (files_a[p], files_b[p], p) counted from 0.
C5_PositionalPairing ==
    ctor = "ok" =>
        /\ IsSortedListOf(files_a, MatchesA)
        /\ IsSortedListOf(files_b, MatchesB)
        /\ n_files = Len(files_a)
        /\ n_files = Len(files_b)
        /\ runs > 0 =>
              /\ Len(image_pairs) = n_files
              /\ \A p \in 1..n_files : image_pairs[p] = <<files_a[p], files_b[p], p - 1>>

\* C5 witness: frames 5, 10, 15 of "a" and of "b"; string order puts 10
\* first and 5 last
C5_Witness ==
    /\ runs > 0
    /\ Len(image_pairs) = 3
    /\ image_pairs[1] = <<PathJoin(DataDir, FileName(2, SuffixA)), PathJoin(DataDir, FileName(2, SuffixB)), 0>>
    /\ image_pairs[3] = <<PathJoin(DataDir, FileName(1, SuffixA)), PathJoin(DataDir, FileName(1, SuffixB)), 2>>

\* C6 as stated: when a run with n_cpus > 1 has raised, every WorkItem has
\* been processed to its end (done or failed).
C6_OthersCompleteBeforeReport ==
    (n_cpus > 1 /\ outcome = "raised") =>
        \A x \in DOMAIN status : status[x] \in {"done", "failed"}

\* C7 as stated: at the step where run raises, the raised error names every
\* WorkItem that has failed.
C7_ReportNamesEveryFailure ==
    [][(pc # "idle" /\ pc' = "idle" /\ outcome' = "raised") =>
          \A x \in DOMAIN status' : status'[x] = "failed" => x = raised']_vars

\* C8: once a run has ended, in either mode, if func failed on some WorkItem
\* the run has raised, with the exception of a failed WorkItem; a run that
\* returned normally has no failed WorkItem.
C8_NoSilentLoss ==
    (RunEnded /\ Failed # {}) => (outcome = "raised" /\ raised \in Failed)

\* C8 witness: a pool run has raised the failure of PairIndex 1
C8_Witness ==
    /\ n_cpus > 1
    /\ RunEnded
    /\ outcome = "raised"
    /\ raised = 1
    /\ status[0] = "done"

\* C9: in a run with n_cpus = 1, as soon as func has failed on PairIndex k
\* the run has raised that failure, every WorkItem of smaller index was
\* invoked once and is done, and no WorkItem of larger index is ever invoked.
C9_SequentialFailFast ==
    (n_cpus = 1 /\ runs > 0) =>
        \A k \in Failed :
            /\ pc = "idle"
            /\ outcome = "raised"
            /\ raised = k
            /\ \A q \in 1..Len(image_pairs) :
                  LET x == image_pairs[q] IN
                     /\ x[3] < k => (Count(x) = 1 /\ status[x[3]] = "done")
                     /\ x[3] = k => Count(x) = 1
                     /\ x[3] > k => (Count(x) = 0 /\ status[x[3]] = "pending")

\* C9 witness: func failed on PairIndex 1 of 3 in a sequential run
C9_Witness ==
    /\ n_cpus = 1
    /\ Len(image_pairs) = 3
    /\ status[1] = "failed"
    /\ Count(image_pairs[2]) = 1
    /\ Count(image_pairs[3]) = 0

\* C10 as stated: at the step where pool.map hands control back, no
\* WorkItem is unstarted or still running.
C10_BlockingUntilAllFinished ==
    [][(pc = "map" /\ pc' = "idle") =>
          \A x \in DOMAIN status' : status'[x] \notin {"pending", "running"}]_vars
\* C11: once constructed, the file lists and the count never change; the
\* list a run builds is the positional pairing of the lists sorted at
\* construction time, whatever the directory holds by then; every later run
\* builds the same list as the run before it and hands func its WorkItems.
C11_RunReplaysSnapshot ==
    [][/\ ctor = "ok" =>
             (ctor' = ctor /\ files_a' = files_a /\ files_b' = files_b /\ n_files' = n_files)
       /\ runs' = runs => image_pairs' = image_pairs
       /\ runs' # runs =>
             /\ IsSortedListOf(files_a, MatchesA)
             /\ IsSortedListOf(files_b, MatchesB)
             /\ Len(image_pairs') = Cardinality(MatchesA)
             /\ \A p \in 1..Len(image_pairs') : image_pairs'[p] = <<files_a[p], files_b[p], p - 1>>
             /\ DOMAIN invoked' = {image_pairs'[p] : p \in 1..Len(image_pairs')}
             /\ runs >= 1 => image_pairs' = image_pairs
      ]_vars

\* C11 witness: a second run, on a pool, has returned after a file matched
\* at construction time was removed or a new match was added
C11_Witness ==
    /\ runs = 2
    /\ n_cpus > 1
    /\ RunEnded
    /\ outcome = "returned"
    /\ GlobMatches(fs, SuffixA) # MatchesA
    /\ Len(image_pairs) = 2
\* C12: for a processor constructed on a small directory, sorting any
\* enumeration of the files matched at construction time gives files_a
\* (files_b), and the list a run builds is their positional pairing: the
\* WorkItems do not depend on the order glob returned the matches in.
C12_DeterministicPairing ==
    (ctor = "ok" /\ fs0 \subseteq AllNames) =>
        /\ \A ga \in Enumerations(MatchesA) : Sorted(ga) = files_a
        /\ \A gb \in Enumerations(MatchesB) : Sorted(gb) = files_b
        /\ runs > 0 => image_pairs = ImagePairs(files_a, files_b, Len(files_a))

\* C12 witness: three matches per pattern (six glob orders each), one run made
C12_Witness ==
    /\ ctor = "ok"
    /\ Cardinality(MatchesA) = 3
    /\ Cardinality(MatchesB) = 3
    /\ runs = 1
    /\ Len(image_pairs) = 3
\* C13: under Fairness every run that has begun eventually hands control
\* back to the caller, and when it does so without any failed invocation it
\* has returned normally with every WorkItem done.
C13_RunTerminates ==
    (pc # "idle") ~>
        (RunEnded /\ (Failed = {} => (outcome = "returned" /\ Unfinished = {})))

\* C13 witness: a run on 3 workers over 3 WorkItems has returned
C13_Witness ==
    /\ n_cpus = 3
    /\ RunEnded
    /\ outcome = "returned"
    /\ Len(image_pairs) = 3
    /\ Unfinished = {}
Busy == {w \in DOMAIN workers : workers[w] # NoTask}
Running == {x \in DOMAIN status : status[x] = "running"}

\* C14: while the pool of a run with n_cpus > 1 is alive it has exactly
\* n_cpus workers, the WorkItems being executed are exactly the current
\* items of the busy workers, one per worker, so at most n_cpus at a time;
\* and a worker leaves its current WorkItem only when func has ended on it.
C14_BoundedFanOut ==
    [][(n_cpus' > 1 /\ pool' = "run") =>
          /\ DOMAIN workers' = 1..n_cpus'
          /\ {x \in DOMAIN status' : status'[x] = "running"}
                = {Head(workers'[w].items)[3] : w \in {v \in DOMAIN workers' : workers'[v] # NoTask}}
          /\ Cardinality({x \in DOMAIN status' : status'[x] = "running"})
                = Cardinality({v \in DOMAIN workers' : workers'[v] # NoTask})
          /\ Cardinality({x \in DOMAIN status' : status'[x] = "running"}) <= n_cpus'
          /\ runs' = runs =>
                \A w \in Busy :
                    workers'[w] # workers[w] =>
                        status'[Head(workers[w].items)[3]] \in {"done", "failed"}
      ]_vars

\* C14 witness: both workers of a pool of 2 are inside func while a task is
\* still waiting in the queue
C14_Witness ==
    /\ n_cpus = 2
    /\ pool = "run"
    /\ Busy = {1, 2}
    /\ Cardinality(Running) = 2
    /\ taskqueue # <<>>
\* PairIndex of the WorkItems in tasks no worker has taken yet
Queued ==
    UNION {{taskqueue[t].items[q][3] : q \in 1..Len(taskqueue[t].items)} : t \in 1..Len(taskqueue)}

\* C15: in a pool run a WorkItem still in the queue has not been started,
\* and a WorkItem has left the queue for a worker only if every WorkItem of
\* smaller index has; in a loop run a WorkItem has been started only if
\* every WorkItem of smaller index has.
C15_SubmissionOrder ==
    /\ (n_cpus > 1 /\ pool = "run") =>
          /\ \A x \in Queued : status[x] = "pending"
          /\ \A x, y \in DOMAIN status : (y < x /\ x \notin Queued) => y \notin Queued
    /\ (n_cpus <= 1 /\ runs > 0) =>
          \A x, y \in DOMAIN status : (y < x /\ status[x] # "pending") => status[y] # "pending"

\* C15 witness: in a pool run PairIndex 1 is done while PairIndex 0 is still
\* running and PairIndex 2 still waits in the queue
C15_Witness ==
    /\ n_cpus > 1
    /\ pool = "run"
    /\ Len(image_pairs) = 3
    /\ status[0] = "running"
    /\ status[1] = "done"
    /\ Queued = {2}
\* C16: a construction ends in NoFilesFoundError only if both patterns
\* matched nothing; when exactly one pattern matched nothing it ends in
\* MismatchedCountError, the count check coming first.
C16_ValidationPrecedence ==
    ctor # "none" =>
        /\ ctor = "NoFilesFoundError" => (MatchesA = {} /\ MatchesB = {})
        /\ ((MatchesA = {}) # (MatchesB = {})) => ctor = "MismatchedCountError"

\* C16 witness: one "a" file and no "b" file, construction has failed
C16_Witness ==
    /\ Cardinality(MatchesA) = 1
    /\ MatchesB = {}
    /\ ctor = "MismatchedCountError"

\* C17: a run with n_cpus <= 1 (0 and negative values included) has no pool
\* and goes through the loop in the caller, starting a WorkItem only when
\* every WorkItem of smaller index is done, and returns normally when no
\* invocation failed; a run with n_cpus > 1 has a pool; a run raises only
\* the failure of a WorkItem, never a rejection of n_cpus.
C17_WorkerCountHandling ==
    runs > 0 =>
        /\ n_cpus <= 1 =>
              /\ pool = "none"
              /\ workers = <<>>
              /\ pc \in {"seq", "func", "idle"}
              /\ \A x, y \in DOMAIN status : (y < x /\ status[x] # "pending") => status[y] = "done"
              /\ (RunEnded /\ Failed = {}) => (outcome = "returned" /\ Unfinished = {})
        /\ n_cpus > 1 => (pool # "none" /\ pc \in {"map", "idle"})
        /\ outcome = "raised" => raised \in Failed

\* C17 witness: run(func, -1) over 3 WorkItems has returned, all done
C17_Witness ==
    /\ n_cpus = 0 - 1
    /\ RunEnded
    /\ outcome = "returned"
    /\ Len(image_pairs) = 3
    /\ \A x \in DOMAIN status : status[x] = "done"
====
